---- MODULE Spec2Model ----
(***************************************************************************)
(* Model of src/src/websocket_backend.py: the MQTT -> WebSocket relay.     *)
(*                                                                         *)
(* Two threads share the module globals websocket_clients,                 *)
(* latest_movement_data and latest_heartbeat_data:                         *)
(*   - the paho thread (loop_forever) runs on_mqtt_message for one bus     *)
(*     event at a time, and inside it asyncio.run(broadcast_to_clients);   *)
(*   - the main thread's event loop runs one handle_websocket_client       *)
(*     coroutine per connection.                                           *)
(* Every access to a shared global is one atomic step (the interpreter     *)
(* lock makes set.add, set.discard, the set iterator's next and a          *)
(* global's load or store atomic), and the two threads interleave between  *)
(* such steps.                                                             *)
(***************************************************************************)
EXTENDS Integers, Sequences, FiniteSets, TLC

\* ------------------------------------------------------------- bounds
NumClients == 2
MaxEvents == 2
MaxTime == 2
MaxClientMsgs == 1

\* ---------------------------------------------------------- constants
MQTT_TOPIC == "vision/sudoers/movement"
MQTT_HEARTBEAT_TOPIC == "vision/sudoers/heartbeat"
Topics == {MQTT_TOPIC, MQTT_HEARTBEAT_TOPIC}

\* Connections are numbered in the order the set's hash table holds them:
\* the set iterator walks the table by slot, and a WebSocket object's hash
\* is its address, so any client may hold any slot.
Clients == 1..NumClients

VARIABLES
    websocket_clients,      \* line 22: the registry
    latest_movement_data,   \* line 24
    latest_heartbeat_data,  \* line 25: node -> data
    clock,                  \* int(time.time())
    hpc,                    \* each handler's position in handle_websocket_client
    hmsg,                   \* each handler's envelope built and not yet sent
    hrecv,                  \* the client messages each handler has taken, in order
    inbox,                  \* what each client has been sent, in order
    bpc,                    \* the paho thread's position
    bmsg,                   \* broadcast_to_clients' argument, message
    it_pos,                 \* the set iterator: next table slot to look at
    it_used,                \* the set iterator: len(set) when it was created
    cur,                    \* the loop variable client
    disconnected,           \* line 101: the list of failed clients
    received,               \* bus events received so far
    lastEvent,              \* the bus event on_mqtt_message was last called with, the
                            \* registry it found and the clients whose send had failed
    passMembers,            \* the registry when the current pass read it first
    passLog,                \* the delivery attempts of the current pass
    passMutated,            \* a handler has changed the registry during the pass
    passResult              \* how the last call of broadcast_to_clients ended

vars == <<websocket_clients, latest_movement_data, latest_heartbeat_data, clock,
          hpc, hmsg, hrecv, inbox, bpc, bmsg, it_pos, it_used, cur, disconnected,
          received, lastEvent, passMembers, passLog, passMutated, passResult>>

cacheVars == <<latest_movement_data, latest_heartbeat_data>>
handlerVars == <<hpc, hmsg, hrecv>>
bridgeVars == <<bpc, bmsg, it_pos, it_used, cur, disconnected, received, lastEvent>>
passVars == <<passMembers, passLog, passMutated, passResult>>

\* ------------------------------------------------------------ payloads
\* A payload after json.loads: a mapping (kind "dict") is the set of its keys
\* and their values; any other JSON value (a string, a list, a number) is
\* kind "nondict", and its keys say what `'timestamp' in data` answers.
\* kind "bad" is a payload that decode('utf-8') or json.loads rejects.
PayloadTs == 7
UnhashableNode == "[]"
NodeVals == {"n1", UnhashableNode}

Data(kind, keys, ts, node, id) ==
    [kind |-> kind, keys |-> keys, timestamp |-> ts, node |-> node, id |-> id]

None == Data("none", {}, 0, "", 0)

RawPayloads(id) ==
    {Data("bad", {}, 0, "", id)}
    \cup {Data("nondict", k, 0, "", id) : k \in {{}, {"timestamp"}}}
    \cup {Data("dict", {}, 0, "", id), Data("dict", {"timestamp"}, PayloadTs, "", id)}
    \cup {Data("dict", {"node"}, 0, n, id) : n \in NodeVals}
    \cup {Data("dict", {"timestamp", "node"}, PayloadTs, n, id) : n \in NodeVals}

\* The payloads drawn for a topic: line 58 alone reads the node, so the
\* primary topic is fed the payloads without one.
BusPayloads(topic, id) ==
    IF topic = MQTT_HEARTBEAT_TOPIC
    THEN RawPayloads(id)
    ELSE {raw \in RawPayloads(id) : "node" \notin raw.keys}

\* The well-formed payload of the publishers: a mapping without a timestamp.
PlainPayloads(id) == {Data("dict", {}, 0, "", id)}

EmptyDict == [k \in {} |-> None]

\* ----------------------------------------------------------- envelopes
Envelope(type, topic, data, table, ts, by) ==
    [type |-> type, topic |-> topic, data |-> data, table |-> table,
     timestamp |-> ts, by |-> by]

NoMsg == Envelope("none", "", None, EmptyDict, 0, "")

Init ==
    /\ websocket_clients = {}
    /\ latest_movement_data = None
    /\ latest_heartbeat_data = EmptyDict
    /\ clock = 1
    /\ hpc = [c \in Clients |-> "new"]
    /\ hmsg = [c \in Clients |-> NoMsg]
    /\ hrecv = [c \in Clients |-> <<>>]
    /\ inbox = [c \in Clients |-> <<>>]
    /\ bpc = "idle"
    /\ bmsg = NoMsg
    /\ it_pos = 0
    /\ it_used = 0
    /\ cur = 0
    /\ disconnected = <<>>
    /\ received = 0
    /\ lastEvent = [topic |-> "", raw |-> None, time |-> 0, members |-> {}, failed |-> {}]
    /\ passMembers = {}
    /\ passLog = <<>>
    /\ passMutated = FALSE
    /\ passResult = "none"

\* time.time() advances.
Tick ==
    /\ clock < MaxTime
    /\ clock' = clock + 1
    /\ UNCHANGED <<websocket_clients, cacheVars, handlerVars, inbox, bridgeVars, passVars>>

\* ----------------------------------------------------- on_mqtt_message
\* lines 46-47: msg.payload.decode('utf-8') or json.loads raises.
JsonLoadsRaises(raw) == raw.kind = "bad"

\* `key in data`
HasKey(data, key) == key \in data.keys

\* data[key] = value and data.get(key) raise on a value that is no mapping
\* (TypeError, AttributeError).
IsMapping(data) == data.kind = "dict"

\* A normalisation that stamps every message.
AddTimestamp_Always(data, T) ==
    [data EXCEPT !.keys = @ \cup {"timestamp"}, !.timestamp = T]

\* lines 50-51 on a mapping
AddTimestamp(data, T) ==
    IF HasKey(data, "timestamp")
    THEN data
    ELSE [data EXCEPT !.keys = @ \cup {"timestamp"}, !.timestamp = T]

\* line 58: data.get('node', 'unknown')
NodeOf(data) == IF HasKey(data, "node") THEN data.node ELSE "unknown"

\* line 59: a list or a mapping as the node is no dictionary key (TypeError).
Hashable(node) == node # UnhashableNode

\* An assignment that rebinds the dictionary to the one entry.
DictSet_Rebound(dict, key, value) == [k \in {key} |-> value]

\* line 59: latest_heartbeat_data[node] = data
DictSet(dict, key, value) ==
    [k \in (DOMAIN dict) \cup {key} |-> IF k = key THEN value ELSE dict[k]]

\* What one call leaves behind, up to the call of broadcast_to_clients.
Outcome(mov, hb, raised, message) ==
    [mov |-> mov, hb |-> hb, raised |-> raised, message |-> message]

\* A callback that stores a primary-channel payload before it is parsed.
ProcessMessage_StoreFirst(topic, raw, T, mov, hb) ==
    Outcome(IF topic = MQTT_TOPIC THEN raw ELSE mov, hb, TRUE, NoMsg)

\* lines 44-67 and the except clause of lines 71-72: the caches after the call,
\* whether an exception ended it, and the envelope handed to the broadcast.
ProcessMessage(topic, raw, T, mov, hb) ==
    IF JsonLoadsRaises(raw)
    THEN Outcome(mov, hb, TRUE, NoMsg)
    ELSE IF ~HasKey(raw, "timestamp") /\ ~IsMapping(raw)
    THEN Outcome(mov, hb, TRUE, NoMsg)                       \* line 50 or 51 raises
    ELSE LET data == AddTimestamp(raw, T)
             message == Envelope("mqtt_message", topic, data, EmptyDict, 0, "broadcast")
         IN  IF topic = MQTT_TOPIC
             THEN IF IsMapping(data)
                  THEN Outcome(data, hb, FALSE, message)
                  ELSE Outcome(data, hb, TRUE, NoMsg)         \* line 56 raises
             ELSE IF ~IsMapping(data)
                  THEN Outcome(mov, hb, TRUE, NoMsg)          \* line 58 raises
                  ELSE IF ~Hashable(NodeOf(data))
                  THEN Outcome(mov, hb, TRUE, NoMsg)          \* line 59 raises
                  ELSE Outcome(mov, DictSet(hb, NodeOf(data), data), FALSE, message)

\* A listener that takes the next event while a broadcast is under way.
ListenerReady_Always == TRUE

\* paho's loop thread calls on_message for one event at a time, and line 69
\* (asyncio.run) returns only when the broadcast has ended.
ListenerReady == bpc = "idle"

PassRunning == bpc \in {"iter", "send", "remove"}

\* broadcast_to_clients has found the registry non-empty for the last bus event.
PassStarted == passResult \in {"running", "done", "aborted"}

\* broadcast_to_clients has returned or raised after a pass.
PassEnded == passResult \in {"done", "aborted"}

\* The clients a pass's log shows a failed send for.
FailedIn(log) == {log[i][1] : i \in {j \in DOMAIN log : log[j][2] = "fail"}}

OnMqttMessage(topic, raw) ==
    /\ ListenerReady
    /\ received < MaxEvents
    /\ LET r == ProcessMessage(topic, raw, clock, latest_movement_data,
                               latest_heartbeat_data)
       IN  /\ latest_movement_data' = r.mov
           /\ latest_heartbeat_data' = r.hb
           /\ bmsg' = r.message
           /\ bpc' = IF r.raised THEN "idle" ELSE "call"
    /\ received' = received + 1
    /\ lastEvent' = [topic |-> topic, raw |-> raw, time |-> clock,
                     members |-> websocket_clients,
                     failed |-> lastEvent.failed \cup FailedIn(passLog)]
    /\ passMembers' = {}
    /\ passLog' = <<>>
    /\ passMutated' = FALSE
    /\ passResult' = "none"
    /\ UNCHANGED <<websocket_clients, clock, handlerVars, inbox, it_pos, it_used, cur,
                   disconnected>>

\* -------------------------------------------------- broadcast_to_clients
\* lines 99-103: the truth test of the set, the empty list, and iter(set).
BroadcastStart ==
    /\ bpc = "call"
    /\ IF websocket_clients = {}
       THEN /\ bpc' = "idle"
            /\ passResult' = "empty"
            /\ UNCHANGED <<it_pos, it_used, disconnected, passMembers>>
       ELSE /\ bpc' = "iter"
            /\ it_pos' = 1
            /\ it_used' = Cardinality(websocket_clients)
            /\ disconnected' = <<>>
            /\ passMembers' = websocket_clients
            /\ passResult' = "running"
    /\ UNCHANGED <<websocket_clients, cacheVars, clock, handlerVars, inbox, bmsg, cur,
                   received, lastEvent, passLog, passMutated>>

\* The members the iterator has still to reach: it reads the live table from
\* its slot on.
Remaining(set, pos) == {c \in set : c >= pos}

Min(S) == CHOOSE x \in S : \A y \in S : x <= y

\* The set iterator's next() raises RuntimeError ("Set changed size during
\* iteration") when len(set) differs from the length it was created with.
SizeChanged(set, used) == Cardinality(set) # used

\* line 103, one turn of the for loop: RuntimeError leaves broadcast_to_clients
\* and asyncio.run and is caught at line 71; the removals of lines 113-114
\* are then not run.
IterNext ==
    /\ bpc = "iter"
    /\ IF SizeChanged(websocket_clients, it_used)
       THEN /\ bpc' = "idle"
            /\ passResult' = "aborted"
            /\ UNCHANGED <<cur, it_pos>>
       ELSE IF Remaining(websocket_clients, it_pos) = {}
       THEN /\ bpc' = "remove"
            /\ UNCHANGED <<cur, it_pos, passResult>>
       ELSE /\ cur' = Min(Remaining(websocket_clients, it_pos))
            /\ it_pos' = cur' + 1
            /\ bpc' = "send"
            /\ UNCHANGED passResult
    /\ UNCHANGED <<websocket_clients, cacheVars, clock, handlerVars, inbox, bmsg, it_used,
                   disconnected, received, lastEvent, passMembers, passLog, passMutated>>

\* The connection's transport takes frames in the order they are sent.
Deliver(box, c, env) == [box EXCEPT ![c] = Append(@, env)]

\* A failed send that is not recorded.
OnSendError_Dropped(list, c) == list

\* lines 106-110: both except clauses append the client.
OnSendError(list, c) == Append(list, c)

\* A pass that lists the clients it has reached, not the ones it has lost.
OnSendOk_Listed(list, c) == Append(list, c)

\* line 105 returning leaves the list of line 101 alone.
OnSendOk(list, c) == list

\* A pass that drops a client as soon as its send fails.
RegistryOnSendError_Discarded(set, c) == set \ {c}

\* lines 106-110 leave the registry alone: they only append to the list.
RegistryOnSendError(set, c) == set

\* line 105 returns. Once a handler has returned the library closes its
\* connection, and a send on a closed connection raises ConnectionClosed.
SendOk ==
    /\ bpc = "send"
    /\ hpc[cur] # "closed"
    /\ inbox' = Deliver(inbox, cur, bmsg)
    /\ disconnected' = OnSendOk(disconnected, cur)
    /\ passLog' = Append(passLog, <<cur, "ok">>)
    /\ bpc' = "iter"
    /\ UNCHANGED <<websocket_clients, cacheVars, clock, handlerVars, bmsg, it_pos, it_used,
                   cur, received, lastEvent, passMembers, passMutated, passResult>>

\* line 105 raises ConnectionClosed or another Exception.
SendFails ==
    /\ bpc = "send"
    /\ disconnected' = OnSendError(disconnected, cur)
    /\ websocket_clients' = RegistryOnSendError(websocket_clients, cur)
    /\ passLog' = Append(passLog, <<cur, "fail">>)
    /\ bpc' = "iter"
    /\ UNCHANGED <<cacheVars, clock, handlerVars, inbox, bmsg, it_pos,
                   it_used, cur, received, lastEvent, passMembers, passMutated, passResult>>

\* A discard that leaves the set as it is.
Discard_Kept(set, c) == set

\* set.discard
Discard(set, c) == set \ {c}

\* set.remove, which raises KeyError for a client that is absent.
DiscardRaises_KeyError(set, c) == c \notin set

\* set.discard raises for no client, absent or present.
DiscardRaises(set, c) == FALSE

\* lines 113-114, one turn of the loop over the list; disconnected holds the
\* part of the list the loop has still to reach.
RemoveNext ==
    /\ bpc = "remove"
    /\ IF disconnected = <<>>
       THEN /\ bpc' = "idle"
            /\ passResult' = "done"
            /\ UNCHANGED <<websocket_clients, disconnected>>
       ELSE IF DiscardRaises(websocket_clients, Head(disconnected))
       THEN /\ bpc' = "idle"
            /\ passResult' = "aborted"
            /\ UNCHANGED <<websocket_clients, disconnected>>
       ELSE /\ websocket_clients' = Discard(websocket_clients, Head(disconnected))
            /\ disconnected' = Tail(disconnected)
            /\ UNCHANGED <<bpc, passResult>>
    /\ UNCHANGED <<cacheVars, clock, handlerVars, inbox, bmsg, it_pos, it_used, cur,
                   received, lastEvent, passMembers, passLog, passMutated>>

\* ------------------------------------------------ handle_websocket_client
\* A handler's step that changes the registry after the pass has read it first.
Mutates(newset) == passMutated \/ (PassStarted /\ newset # websocket_clients)

\* set.add
Add(set, c) == set \cup {c}

\* lines 118-122: the connection is accepted and the client is added.
Connect(c) ==
    /\ hpc[c] = "new"
    /\ websocket_clients' = Add(websocket_clients, c)
    /\ passMutated' = Mutates(websocket_clients')
    /\ hpc' = [hpc EXCEPT ![c] = "welcome"]
    /\ UNCHANGED <<cacheVars, clock, hmsg, hrecv, inbox, bridgeVars, passMembers, passLog,
                   passResult>>

\* lines 126-132, the send returning.
SendWelcome(c) ==
    /\ hpc[c] = "welcome"
    /\ inbox' = Deliver(inbox, c, Envelope("welcome", "", None, EmptyDict, clock, "handler"))
    /\ hpc' = [hpc EXCEPT ![c] = "movement"]
    /\ UNCHANGED <<websocket_clients, cacheVars, clock, hmsg, hrecv, bridgeVars, passVars>>

\* `if latest_movement_data:`: None is false, and so is an empty mapping;
\* every value line 55 stores holds 'timestamp'.
Truthy(data) == data.kind # "none" /\ data.keys # {}

\* lines 135-141 up to the send: the cache is read and serialised.
CheckMovement(c) ==
    /\ hpc[c] = "movement"
    /\ IF Truthy(latest_movement_data)
       THEN /\ hmsg' = [hmsg EXCEPT ![c] = Envelope("mqtt_message", MQTT_TOPIC,
                            latest_movement_data, EmptyDict, 0, "handler")]
            /\ hpc' = [hpc EXCEPT ![c] = "send_mov"]
       ELSE /\ hpc' = [hpc EXCEPT ![c] = "heartbeat"]
            /\ UNCHANGED hmsg
    /\ UNCHANGED <<websocket_clients, cacheVars, clock, hrecv, inbox, bridgeVars, passVars>>

\* A read that drains the dictionary.
ReadCache_Drained(dict) == EmptyDict

\* lines 148-150: json.dumps reads the dictionary and leaves it as it is.
ReadCache(dict) == dict

\* lines 144-150 up to the send: the heartbeat dictionary is serialised whole.
CheckHeartbeat(c) ==
    /\ hpc[c] = "heartbeat"
    /\ IF DOMAIN latest_heartbeat_data # {}
       THEN /\ hmsg' = [hmsg EXCEPT ![c] = Envelope("mqtt_message", MQTT_HEARTBEAT_TOPIC,
                            None, latest_heartbeat_data, 0, "handler")]
            /\ hpc' = [hpc EXCEPT ![c] = "send_hb"]
       ELSE /\ hpc' = [hpc EXCEPT ![c] = "active"]
            /\ UNCHANGED hmsg
    /\ latest_heartbeat_data' = ReadCache(latest_heartbeat_data)
    /\ UNCHANGED <<websocket_clients, latest_movement_data, clock, hrecv, inbox, bridgeVars,
                   passVars>>

\* A connect sequence that stops after its first snapshot.
AfterSend_Active(pc) == "active"

\* Where the handler goes on after a send of its connect sequence.
AfterSend(pc) == IF pc = "send_mov" THEN "heartbeat" ELSE "active"

\* lines 141 and 150, the send returning.
SendSnapshot(c) ==
    /\ hpc[c] \in {"send_mov", "send_hb"}
    /\ inbox' = Deliver(inbox, c, hmsg[c])
    /\ hmsg' = [hmsg EXCEPT ![c] = NoMsg]
    /\ hpc' = [hpc EXCEPT ![c] = AfterSend(hpc[c])]
    /\ UNCHANGED <<websocket_clients, cacheVars, clock, hrecv, bridgeVars, passVars>>

\* The awaits of the handler outside the inner try: the sends of lines 132,
\* 141, 150 and the `async for` of line 153.
Awaiting(pc) == pc \in {"welcome", "send_mov", "send_hb", "active"}

\* An await raises (ConnectionClosed, another Exception, a cancellation) or
\* the `async for` ends because the client closed: lines 171-175.
HandlerExits(c) ==
    /\ Awaiting(hpc[c])
    /\ hpc' = [hpc EXCEPT ![c] = "finally"]
    /\ hmsg' = [hmsg EXCEPT ![c] = NoMsg]
    /\ UNCHANGED <<websocket_clients, cacheVars, clock, hrecv, inbox, bridgeVars, passVars>>

\* A client message: {"type": "ping"}, a mapping of another type, a JSON value
\* that is no mapping (line 159 raises AttributeError), text that is no JSON.
ClientMsgKinds == {"ping", "other", "nondict", "invalid"}

\* A handler that answers every message.
IsPing_Any(kind) == TRUE

\* line 159
IsPing(kind) == kind = "ping"

\* lines 153-169, one client message: a ping is answered by a pong, and
\* everything else (another type, invalid JSON) is answered by nothing.
ClientMessage(c, kind) ==
    /\ hpc[c] = "active"
    /\ Len(hrecv[c]) < MaxClientMsgs
    /\ hrecv' = [hrecv EXCEPT ![c] = Append(@, kind)]
    /\ inbox' = IF IsPing(kind)
                THEN Deliver(inbox, c, Envelope("pong", "", None, EmptyDict, clock, "handler"))
                ELSE inbox
    /\ UNCHANGED <<websocket_clients, cacheVars, clock, hpc, hmsg, bridgeVars, passVars>>

\* lines 159-169: the pong's send raises, the inner `except Exception` takes
\* it and the loop goes on.
PongFails(c) ==
    /\ hpc[c] = "active"
    /\ Len(hrecv[c]) < MaxClientMsgs
    /\ hrecv' = [hrecv EXCEPT ![c] = Append(@, "ping_unanswered")]
    /\ UNCHANGED <<websocket_clients, cacheVars, clock, hpc, hmsg, inbox, bridgeVars, passVars>>

\* lines 175-178
Cleanup(c) ==
    /\ hpc[c] = "finally"
    /\ websocket_clients' = Discard(websocket_clients, c)
    /\ passMutated' = Mutates(websocket_clients')
    /\ hpc' = [hpc EXCEPT ![c] = "closed"]
    /\ UNCHANGED <<cacheVars, clock, hmsg, hrecv, inbox, bridgeVars, passMembers, passLog,
                   passResult>>

\* The handler from accept to cleanup, without the client's own messages.
Lifecycle(c) ==
    \/ Connect(c)
    \/ SendWelcome(c)
    \/ CheckMovement(c)
    \/ CheckHeartbeat(c)
    \/ SendSnapshot(c)
    \/ HandlerExits(c)
    \/ Cleanup(c)

\* The handler's loop over the client's messages.
Talk(c) ==
    \/ \E kind \in ClientMsgKinds : ClientMessage(c, kind)
    \/ PongFails(c)

\* asyncio.run(broadcast_to_clients(...)) of line 69, step by step.
Broadcast ==
    \/ BroadcastStart
    \/ IterNext
    \/ SendOk
    \/ SendFails
    \/ RemoveNext

\* The relay under concurrent connections: every client connects and leaves
\* while well-formed bus events arrive on both topics.
Next ==
    \/ \E topic \in Topics : \E raw \in PlainPayloads(received + 1) :
            OnMqttMessage(topic, raw)
    \/ Broadcast
    \/ \E c \in Clients : Lifecycle(c)

Spec == Init /\ [][Next]_vars

\* The relay under every kind of bus payload, with time passing and one
\* client connected.
NextBus ==
    \/ Tick
    \/ \E topic \in Topics : \E raw \in BusPayloads(topic, received + 1) :
            OnMqttMessage(topic, raw)
    \/ Broadcast
    \/ Lifecycle(1)
    \/ Talk(1)

BusSpec == Init /\ [][NextBus]_vars

\* The steps the two threads take by themselves. A send of line 105 returns
\* or raises when the peer and the network let it: the code sets no timeout
\* on it, so nothing makes SendOk or SendFails happen.
OwnSteps ==
    \/ BroadcastStart
    \/ IterNext
    \/ RemoveNext
    \/ \E c \in Clients : SendWelcome(c) \/ CheckMovement(c) \/ CheckHeartbeat(c)
                               \/ SendSnapshot(c) \/ Cleanup(c)

FairSpec == Spec /\ WF_vars(OwnSteps)

\* ------------------------------------------------------------ properties
\* The delivery attempts the current pass has made to client c.
Attempts(c) == Cardinality({i \in DOMAIN passLog : passLog[i][1] = c})

\* The clients whose send failed in the current pass.
Failed == {c \in Clients : \E i \in DOMAIN passLog : passLog[i] = <<c, "fail">>}

\* The copies of envelope env that client c has been sent.
Copies(c, env) == Cardinality({i \in DOMAIN inbox[c] : inbox[c][i] = env})

\* The handler of c has added it and has not yet run its cleanup.
Open(c) == hpc[c] \notin {"new", "closed"}

\* C1: a pass that has ended was not aborted and has made exactly one delivery
\* attempt to every client that was a registry member when the pass started,
\* whatever handlers connected or disconnected meanwhile.
C1_SnapshotPass ==
    PassEnded => /\ passResult = "done"
                 /\ \A c \in passMembers : Attempts(c) = 1

\* C2: a pass during which no handler changed the registry does not raise,
\* attempts every member once, delivers the message once to every member whose
\* send did not fail, and leaves the registry equal to the members minus the
\* failed ones.
C2_FanOutIsolation ==
    (PassEnded /\ ~passMutated) =>
        /\ passResult = "done"
        /\ \A c \in passMembers : Attempts(c) = 1
        /\ \A c \in passMembers \ Failed : Copies(c, bmsg) = 1
        /\ \A c \in Failed : Copies(c, bmsg) = 0
        /\ websocket_clients = passMembers \ Failed

C2_Witness ==
    /\ passResult = "done"
    /\ ~passMutated
    /\ Failed # {}
    /\ passMembers \ Failed # {}

\* C3: whenever a pass reads the registry (the truth test and iter() of
\* lines 99-103, each next() of line 103), the registry is exactly the set of
\* clients whose handler has registered them and is not yet closed.
C3_RegistryIsOpenConnections ==
    bpc \in {"call", "iter"} => websocket_clients = {c \in Clients : Open(c)}

\* C4: a client whose handler has reached Closed is not a registry member,
\* whichever way the handler left and whatever a broadcast pass did or does.
C4_CleanupOnExit ==
    \A c \in Clients : hpc[c] = "closed" => c \notin websocket_clients

C4_Witness ==
    \E c \in Clients : /\ hpc[c] = "closed"
                       /\ PassRunning
                       /\ c \in Failed
                       /\ c \in passMembers

\* C5: the paho thread never stays inside a fan-out pass for ever: a send that
\* is awaited ends, and the listener gets back to taking bus events.
C5_ListenerNeverBlocked == (bpc = "send") ~> (bpc = "idle")

\* C6: a bus event whose payload does not decode or parse changes neither the
\* cache nor the registry, sends nothing to any client, and leaves the bridge
\* ready for the next event.
C6_MalformedDiscarded ==
    [][(received' = received + 1 /\ lastEvent'.raw.kind = "bad")
          => /\ UNCHANGED <<latest_movement_data, latest_heartbeat_data>>
             /\ UNCHANGED <<inbox, websocket_clients>>
             /\ bpc' = "idle"]_vars

C6_Witness ==
    /\ received = MaxEvents
    /\ lastEvent.raw.kind = "bad"
    /\ websocket_clients # {}
    /\ latest_movement_data # None
    /\ bpc = "idle"

\* The broadcast envelopes of one topic that client c has been sent.
Broadcasts(c, topic) ==
    SelectSeq(inbox[c], LAMBDA e : e.by = "broadcast" /\ e.topic = topic)

\* Client c has been sent the broadcasts of each topic in bus order.
InBusOrder(c) ==
    \A topic \in Topics :
        LET b == Broadcasts(c, topic)
        IN  \A i, j \in DOMAIN b : i < j => b[i].data.id < b[j].data.id

\* C7: a bus event is taken only when the pass of the event before it has
\* ended, and every client is sent the broadcasts of one channel in the order
\* the bus delivered them.
C7_ChannelOrder ==
    [][/\ received' # received => ~PassRunning /\ bpc = "idle"
       /\ \A c \in Clients : InBusOrder(c)']_vars

C7_Witness ==
    \E c \in Clients : \E topic \in Topics : Len(Broadcasts(c, topic)) >= 2

\* The last bus event was parsed into a mapping the callback could route.
LastEventRouted ==
    /\ received > 0
    /\ lastEvent.raw.kind = "dict"
    /\ lastEvent.topic = MQTT_HEARTBEAT_TOPIC => lastEvent.raw.node # UnhashableNode

\* The cache key a heartbeat payload is stored under.
KeyOf(raw) == IF "node" \in raw.keys THEN raw.node ELSE "unknown"

\* The cache entry the last bus event was stored in.
LastEntry ==
    IF lastEvent.topic = MQTT_TOPIC
    THEN latest_movement_data
    ELSE latest_heartbeat_data[KeyOf(lastEvent.raw)]

\* Value d is payload raw with nothing changed but a timestamp T added.
StampedWith(d, raw, T) ==
    /\ "timestamp" \in d.keys
    /\ d.timestamp = T
    /\ [d EXCEPT !.keys = raw.keys, !.timestamp = raw.timestamp] = raw

\* C8: after a parsed bus message is ingested, the cache entry and the
\* broadcast envelope hold the same value; that value is the payload unchanged
\* when the payload had a timestamp, and the payload with timestamp = the time
\* of receipt when it had none, however much time passes afterwards; every
\* copy a client is sent carries that value.
C8_TimestampOnce ==
    LastEventRouted =>
        /\ bmsg.data = LastEntry
        /\ bmsg.topic = lastEvent.topic
        /\ IF "timestamp" \in lastEvent.raw.keys
           THEN LastEntry = lastEvent.raw
           ELSE StampedWith(LastEntry, lastEvent.raw, lastEvent.time)
        /\ \A c \in Clients : \A i \in DOMAIN inbox[c] :
              (inbox[c][i].by = "broadcast" /\ inbox[c][i].data.id = received)
                  => inbox[c][i].data = LastEntry

C8_Witness ==
    /\ LastEventRouted
    /\ "timestamp" \notin lastEvent.raw.keys
    /\ clock > lastEvent.time
    /\ \E c \in Clients : Copies(c, bmsg) = 1

\* Value d is payload raw, or payload raw with a timestamp added.
SameMessage(d, raw) ==
    \/ d = raw
    \/ "timestamp" \notin raw.keys /\ StampedWith(d, raw, d.timestamp)

\* C9: a step that ingests a routed bus message stores it under its own key
\* (the primary entry, or the heartbeat entry of its node, "unknown" without a
\* node field) and leaves the primary value and every other node's entry as
\* they were; no other step changes the cache. So each entry is the last
\* message of its key.
C9_LatestPerKey ==
    [][IF received' = received + 1 /\ LastEventRouted'
       THEN LET raw == lastEvent'.raw
            IN  IF lastEvent'.topic = MQTT_TOPIC
                THEN /\ SameMessage(latest_movement_data', raw)
                     /\ latest_heartbeat_data' = latest_heartbeat_data
                ELSE /\ latest_movement_data' = latest_movement_data
                     /\ DOMAIN latest_heartbeat_data'
                            = DOMAIN latest_heartbeat_data \cup {KeyOf(raw)}
                     /\ SameMessage(latest_heartbeat_data'[KeyOf(raw)], raw)
                     /\ \A k \in DOMAIN latest_heartbeat_data \ {KeyOf(raw)} :
                            latest_heartbeat_data'[k] = latest_heartbeat_data[k]
       ELSE IF received' = received + 1
       THEN /\ latest_heartbeat_data' = latest_heartbeat_data
            /\ lastEvent'.topic # MQTT_TOPIC => latest_movement_data' = latest_movement_data
       ELSE UNCHANGED <<latest_movement_data, latest_heartbeat_data>>]_vars

C9_Witness ==
    /\ Cardinality(DOMAIN latest_heartbeat_data) = 2
    /\ LastEventRouted
    /\ lastEvent.topic = MQTT_HEARTBEAT_TOPIC
    /\ latest_heartbeat_data["unknown"].id # latest_heartbeat_data["n1"].id

\* The envelopes the handler of c has sent itself.
HandlerSent(c) == SelectSeq(inbox[c], LAMBDA e : e.by = "handler")

\* The place of an envelope in the connect sequence; a pong comes after it.
Rank(e) ==
    IF e.type = "welcome" THEN 1
    ELSE IF e.type = "mqtt_message" /\ e.topic = MQTT_TOPIC THEN 2
    ELSE IF e.type = "mqtt_message" /\ e.topic = MQTT_HEARTBEAT_TOPIC THEN 3
    ELSE 4

\* Welcome first, then at most one primary snapshot, then at most one heartbeat
\* snapshot, and nothing else before the handler is Active.
ConnectOrder(c) ==
    LET h == HandlerSent(c)
    IN  /\ Len(h) >= 1 => h[1].type = "welcome"
        /\ \A i, j \in DOMAIN h : i < j => Rank(h[i]) < Rank(h[j]) \/ Rank(h[j]) = 4
        /\ (hpc[c] # "active" /\ hrecv[c] = <<>>) => \A i \in DOMAIN h : Rank(h[i]) <= 3
        /\ hpc[c] = "active" => Len(h) >= 1

\* C10: a handler's own envelopes are welcome, primary snapshot, heartbeat
\* snapshot in this order; the primary snapshot is sent if and only if a
\* primary value is cached when the handler looks, the heartbeat snapshot if
\* and only if the heartbeat cache is then non-empty; a handler enters Active
\* only from the heartbeat step; and a handler that left by a failed send sends
\* nothing more, takes no client message, and goes to Closed.
C10_ConnectSequence ==
    [][\A c \in Clients :
        /\ ConnectOrder(c)'
        /\ (hpc[c] = "movement" /\ hpc'[c] # "movement")
              => /\ hpc'[c] = (IF latest_movement_data # None THEN "send_mov" ELSE "heartbeat")
                 /\ latest_movement_data # None => hmsg'[c].data = latest_movement_data
        /\ (hpc[c] = "heartbeat" /\ hpc'[c] # "heartbeat")
              => /\ hpc'[c] = (IF DOMAIN latest_heartbeat_data # {} THEN "send_hb"
                               ELSE "active")
                 /\ hpc'[c] = "send_hb" => hmsg'[c].table = latest_heartbeat_data
        /\ (hpc[c] = "send_mov" /\ hpc'[c] = "heartbeat")
              => HandlerSent(c)' = Append(HandlerSent(c), hmsg[c])
        /\ (hpc[c] = "send_hb" /\ hpc'[c] = "active")
              => HandlerSent(c)' = Append(HandlerSent(c), hmsg[c])
        /\ (hpc[c] # "active" /\ hpc'[c] = "active") => hpc[c] \in {"heartbeat", "send_hb"}
        /\ (hpc[c] # "finally" /\ hpc'[c] = "finally")
              => HandlerSent(c)' = HandlerSent(c) /\ hrecv'[c] = hrecv[c]
        /\ hpc[c] \in {"finally", "closed"}
              => /\ hpc'[c] \in {"finally", "closed"}
                 /\ HandlerSent(c)' = HandlerSent(c)
                 /\ hrecv'[c] = hrecv[c]]_vars

\* A handler that was cut off between its two snapshots, with both caches set.
C10_Witness ==
    \E c \in Clients :
        /\ hpc[c] = "closed"
        /\ hrecv[c] = <<>>
        /\ Len(HandlerSent(c)) = 2
        /\ Rank(HandlerSent(c)[2]) = 2
        /\ DOMAIN latest_heartbeat_data # {}

\* The last element of a non-empty sequence.
Last(seq) == seq[Len(seq)]

\* C11: a step that takes a client message leaves the handler Active and the
\* registry as it was; a ping whose pong can be sent adds exactly one pong,
\* carrying the current time, to what the client is sent; a message of another
\* type, a JSON value that is no mapping, invalid JSON and a ping whose pong
\* could not be sent add nothing.
C11_ClientMessages ==
    [][\A c \in Clients :
        hrecv'[c] # hrecv[c]
          => /\ hpc[c] = "active"
             /\ hpc'[c] = "active"
             /\ websocket_clients' = websocket_clients
             /\ hrecv'[c] = Append(hrecv[c], Last(hrecv'[c]))
             /\ IF Last(hrecv'[c]) = "ping"
                THEN /\ Len(inbox'[c]) = Len(inbox[c]) + 1
                     /\ SubSeq(inbox'[c], 1, Len(inbox[c])) = inbox[c]
                     /\ Last(inbox'[c]).type = "pong"
                     /\ Last(inbox'[c]).timestamp = clock
                ELSE inbox'[c] = inbox[c]]_vars

\* A handler that has taken a message that was no ping and is still Active
\* and registered.
C11_Witness ==
    \E c \in Clients :
        /\ hrecv[c] # <<>>
        /\ Last(hrecv[c]) \in {"other", "nondict", "invalid"}
        /\ hpc[c] = "active"
        /\ c \in websocket_clients
        /\ \A i \in DOMAIN inbox[c] : inbox[c][i].type # "pong"

\* The clients whose send has failed in a broadcast pass so far.
EverFailed == lastEvent.failed \cup Failed

\* C12: a pass makes no delivery attempt to a client whose send failed in an
\* earlier pass.
C12_FailedClientDropped ==
    bpc = "send" => cur \notin lastEvent.failed

\* C13: as long as no broadcast send has failed, the registry is exactly the
\* set of clients added by their handler and not yet removed by it, whatever
\* passes ran or run meanwhile.
C13_RegistryIsNetSet ==
    EverFailed = {} => websocket_clients = {c \in Clients : Open(c)}

\* Two passes have ended without a failed send, the last one aborted by a
\* handler's change of the registry, with a client in and a client out.
C13_Witness ==
    /\ EverFailed = {}
    /\ received = MaxEvents
    /\ passResult = "aborted"
    /\ passLog # <<>>
    /\ websocket_clients # {}
    /\ \E c \in Clients : hpc[c] = "closed"

\* A step of a handler of some client (each of them moves its position or takes
\* a client message).
HandlerStep == hpc' # hpc \/ hrecv' # hrecv

\* C14: on every registry the program reaches, adding a member and removing a
\* non-member give the same registry back; a handler's cleanup of a client a
\* pass has already removed, and a pass's removal of a client its handler has
\* already removed, leave the registry unchanged and go on as after any other
\* removal (the handler reaches Closed, the pass goes to its next removal).
C14_AddRemoveIdempotent ==
    [][/\ \A c \in websocket_clients' : Add(websocket_clients', c) = websocket_clients'
       /\ \A c \in Clients \ websocket_clients' :
              Discard(websocket_clients', c) = websocket_clients'
       /\ \A c \in Clients \ websocket_clients :
              (hpc[c] = "finally" /\ hpc'[c] # "finally")
                  => websocket_clients' = websocket_clients /\ hpc'[c] = "closed"
       /\ (bpc = "remove" /\ ~HandlerStep /\ disconnected # <<>>
                          /\ Head(disconnected) \notin websocket_clients)
              => /\ websocket_clients' = websocket_clients
                 /\ disconnected' = Tail(disconnected)
                 /\ bpc' = "remove"]_vars

\* A pass has removed, without aborting, a failed client whose handler had
\* cleaned up before.
C14_Witness ==
    /\ passResult = "done"
    /\ passMutated
    /\ \E c \in Failed : hpc[c] = "closed"

\* C15: a step of a broadcast pass removes a client only in the removal loop,
\* and only a client whose send failed in this pass; once the removal loop has
\* begun the pass makes no further delivery attempt, and every member of the
\* pass's start that is still registered has had its attempt.
C15_CollectThenRemove ==
    [][/\ (websocket_clients' # websocket_clients /\ ~HandlerStep)
              => /\ bpc = "remove"
                 /\ websocket_clients' = websocket_clients \ {Head(disconnected)}
                 /\ Head(disconnected) \in Failed
                 /\ \A c \in passMembers \cap websocket_clients : Attempts(c) = 1
       /\ bpc = "remove" => passLog' = passLog \/ received' # received
       /\ (bpc = "remove" /\ ~HandlerStep) => bpc' \in {"remove", "idle"}]_vars

\* A pass is in its removal loop, has removed its first failed client and
\* had delivered to another client after that failure.
C15_Witness ==
    /\ bpc = "remove"
    /\ Len(passLog) >= 2
    /\ passLog[1][2] = "fail"
    /\ passLog[2][2] = "ok"
    /\ passLog[1][1] \notin websocket_clients
    /\ hpc[passLog[1][1]] # "closed"

\* C16: only the step that ingests a bus event changes the cache: every step
\* of a handler and every step of a broadcast pass leaves the primary value
\* and all heartbeat entries as they were.
C16_SingleWriter ==
    [][received' = received
          => UNCHANGED <<latest_movement_data, latest_heartbeat_data>>]_vars

\* A handler has sent both snapshots and answered a ping, a pass has run, and
\* the cache still holds both values.
C16_Witness ==
    /\ hpc[1] = "active"
    /\ Len(HandlerSent(1)) = 4
    /\ passResult = "done"
    /\ latest_movement_data # None
    /\ DOMAIN latest_heartbeat_data # {}

\* C17: the first envelope a client is sent is its welcome, and it is sent at
\* most one welcome.
C17_WelcomeFirst ==
    \A c \in Clients :
        /\ inbox[c] # <<>> => inbox[c][1].type = "welcome"
        /\ Cardinality({i \in DOMAIN inbox[c] : inbox[c][i].type = "welcome"}) <= 1

\* The primary-channel relay envelopes client c has been sent, snapshots and
\* broadcasts together.
PrimaryRelays(c) ==
    SelectSeq(inbox[c], LAMBDA e : e.type = "mqtt_message" /\ e.topic = MQTT_TOPIC)

\* C18: the primary-channel relay envelopes a client is sent are in
\* non-decreasing bus order.
C18_NoStaleAfterFresh ==
    \A c \in Clients :
        LET p == PrimaryRelays(c)
        IN  \A i, j \in DOMAIN p : i < j => p[i].data.id <= p[j].data.id

\* C19: when the bridge has finished with a primary-channel event, every
\* client that was registered when the event was ingested, has finished its
\* connect sequence, is still connected and has had no failed send has been
\* sent that event's message.
C19_NoMissedUpdate ==
    (bpc = "idle" /\ received > 0 /\ lastEvent.topic = MQTT_TOPIC)
        => \A c \in lastEvent.members :
              (hpc[c] = "active" /\ c \notin EverFailed)
                  => \E i \in DOMAIN inbox[c] :
                        /\ inbox[c][i].type = "mqtt_message"
                        /\ inbox[c][i].topic = MQTT_TOPIC
                        /\ inbox[c][i].data.id = received
====
